---- MODULE Spec2Model ----
(***************************************************************************)
(* Model of the fraud relationship graph view (GraphView, buildGraph) of   *)
(* src/frontend/src/app/views/AlertsView.tsx: the force simulation run by  *)
(* the mount effect, its requestAnimationFrame / setTimeout scheduling,    *)
(* and the hover / selection handlers with the dimming derived from them.  *)
(*                                                                         *)
(* Numbers.  The source computes in IEEE doubles.  Here a coordinate, a    *)
(* velocity or a force is an integer count of 1/Sub pixel, and every       *)
(* division truncates toward zero (Quot).  Math.sqrt is the integer square *)
(* root of the squared distance, so a distance is 0 exactly when the two   *)
(* points coincide, as in the source.  Math.random() is a draw from        *)
(* RandVals (thousandths), fixed by the run's seed and the call's rank.    *)
(***************************************************************************)
EXTENDS Integers, Sequences, FiniteSets, TLC

\* ---------------------------------------------------------------- bounds
Sub == 16            \* sub-pixel units per pixel
NumSeeds == 1        \* Math.random streams tried for buildGraph
MaxTicks == 2        \* frames executed in one run
MaxMouse == 1        \* pointer coordinates tried: 0..MaxMouse, times 10
MaxHover == 2        \* nodes the pointer enters: the first MaxHover of the list

\* ------------------------------------------------------ program constants
W == 700
H == 440
MARGIN == 20
K_REP == 1200
IDEAL == 120
None == "null"

\* ------------------------------------------------------------- arithmetic
Abs(a) == IF a < 0 THEN 0 - a ELSE a

Sgn(a) == IF a < 0 THEN 0 - 1 ELSE 1

\* a / b of the source, truncated toward zero (b # 0)
Quot(a, b) == Sgn(a) * Sgn(b) * (Abs(a) \div Abs(b))

Max(a, b) == IF a >= b THEN a ELSE b

Min(a, b) == IF a <= b THEN a ELSE b

RECURSIVE SqrtIter(_, _)
SqrtIter(n, g) ==
    LET g2 == (g + (n \div g)) \div 2
    IN  IF g2 >= g THEN g ELSE SqrtIter(n, g2)

\* Math.sqrt(dx * dx + dy * dy): floor of the root, by Newton's iteration
\* started from |dx| + |dy|, which is never below the root
Hypot(dx, dy) ==
    IF dx = 0 /\ dy = 0 THEN 0
    ELSE SqrtIter(dx * dx + dy * dy, Abs(dx) + Abs(dy))

Px(p) == p * Sub

\* ---------------------------------------------------------- Math.random()
RandVals == <<0, 500, 999>>

Rnd(seed, rc) == RandVals[((seed + rc) % Len(RandVals)) + 1]

\* ------------------------------------------------------------ buildGraph
\* the three clusters; color in thousandths
clusters ==
    << [cx |-> 180, cy |-> 160, color |-> 850, count |-> 5],
       [cx |-> 500, cy |-> 280, color |-> 720, count |-> 4],
       [cx |-> 340, cy |-> 380, color |-> 200, count |-> 3] >>

\* <<Math.cos, Math.sin>> of 2*PI*i/count in thousandths, i = 0..count-1
Trig(count) ==
    CASE count = 5 -> << <<1000, 0>>, <<309, 951>>, <<0 - 809, 588>>,
                         <<0 - 809, 0 - 588>>, <<309, 0 - 951>> >>
      [] count = 4 -> << <<1000, 0>>, <<0, 1000>>, <<0 - 1000, 0>>,
                         <<0, 0 - 1000>> >>
      [] count = 3 -> << <<1000, 0>>, <<0 - 500, 866>>, <<0 - 500, 0 - 866>> >>

\* <<Math.cos, Math.sin>> of angle + 0.6 at i = 0 (angle = 0), in thousandths
TrigMerchant == <<825, 565>>

\* one pass of the account loop body (i is 0-based as in the source)
AccStep(b, cl, hubId, i, seed) ==
    LET cs    == Trig(cl.count)[i + 1]
        r     == Px(80) + Quot(Rnd(seed, b.rc) * 30 * Sub, 1000)
        acc   == [id    |-> "A" \o ToString(b.nid),
                  type  |-> "account",
                  risk  |-> Quot(cl.color * (700 + Quot(Rnd(seed, b.rc + 1) * 300, 1000)), 1000),
                  label |-> "USR-" \o ToString(Rnd(seed, b.rc + 2)),
                  x     |-> Px(cl.cx) + Quot(cs[1] * r, 1000),
                  y     |-> Px(cl.cy) + Quot(cs[2] * r, 1000)]
        e1    == [source |-> hubId, target |-> acc.id, weight |-> 20,
                  type |-> "shared_device"]
        merch == [id    |-> "M" \o ToString(b.nid + 1),
                  type  |-> "merchant",
                  risk  |-> 100 + Quot(Rnd(seed, b.rc + 3) * 200, 1000),
                  label |-> "MCH-" \o ToString(Quot(Rnd(seed, b.rc + 4) * 9000, 1000) + 1000),
                  x     |-> Px(cl.cx) + Quot(TrigMerchant[1] * (r + Px(60)), 1000),
                  y     |-> Px(cl.cy) + Quot(TrigMerchant[2] * (r + Px(60)), 1000)]
        e2    == [source |-> acc.id, target |-> merch.id, weight |-> 10,
                  type |-> "transaction"]
    IN  IF i = 0
        THEN [nodes |-> b.nodes \o <<acc, merch>>,
              edges |-> b.edges \o <<e1, e2>>,
              nid   |-> b.nid + 2,
              rc    |-> b.rc + 5]
        ELSE [nodes |-> Append(b.nodes, acc),
              edges |-> Append(b.edges, e1),
              nid   |-> b.nid + 1,
              rc    |-> b.rc + 3]

RECURSIVE AccLoop(_, _, _, _, _)
AccLoop(b, cl, hubId, i, seed) ==
    IF i >= cl.count THEN b
    ELSE AccLoop(AccStep(b, cl, hubId, i, seed), cl, hubId, i + 1, seed)

\* the cross-cluster IP link of cluster ci (1-based here, ci - 1 in the source)
IpLink(b, ci, hubId, seed) ==
    LET cl  == clusters[ci]
        nx  == clusters[ci + 1]
        ip  == [id    |-> "IP" \o ToString(b.nid),
                type  |-> "ip",
                risk  |-> 600 + Quot(Rnd(seed, b.rc) * 300, 1000),
                label |-> "104." \o ToString(Quot(Rnd(seed, b.rc + 1) * 254, 1000))
                          \o "." \o ToString(Quot(Rnd(seed, b.rc + 2) * 254, 1000))
                          \o "." \o ToString(Quot(Rnd(seed, b.rc + 3) * 254, 1000)),
                x     |-> Quot(Px(cl.cx + nx.cx), 2)
                          + Quot((Rnd(seed, b.rc + 4) - 500) * 40 * Sub, 1000),
                y     |-> Quot(Px(cl.cy + nx.cy), 2)
                          + Quot((Rnd(seed, b.rc + 5) - 500) * 40 * Sub, 1000)]
        nid == b.nid + 1
        e1  == [source |-> hubId, target |-> ip.id, weight |-> 15,
                type |-> "shared_ip"]
        e2  == [source |-> "D" \o ToString(nid - 1 - cl.count * 2),
                target |-> ip.id, weight |-> 15, type |-> "shared_ip"]
    IN  [nodes |-> Append(b.nodes, ip),
         edges |-> b.edges \o <<e1, e2>>,
         nid   |-> nid,
         rc    |-> b.rc + 6]

\* the body of clusters.forEach for cluster ci (1-based)
ClusterStep(b, ci, seed) ==
    LET cl  == clusters[ci]
        hub == [id    |-> "D" \o ToString(b.nid),
                type  |-> "device",
                risk  |-> cl.color,
                label |-> "fp_" \o ToString(Rnd(seed, b.rc)),
                x     |-> Px(cl.cx),
                y     |-> Px(cl.cy)]
        b1  == [nodes |-> Append(b.nodes, hub), edges |-> b.edges,
                nid |-> b.nid + 1, rc |-> b.rc + 1]
        b2  == AccLoop(b1, cl, hub.id, 0, seed)
    IN  IF ci - 1 < Len(clusters) - 1 THEN IpLink(b2, ci, hub.id, seed) ELSE b2

RECURSIVE ClusterLoop(_, _, _)
ClusterLoop(b, ci, seed) ==
    IF ci > Len(clusters) THEN b
    ELSE ClusterLoop(ClusterStep(b, ci, seed), ci + 1, seed)

buildGraph(seed) ==
    LET b == ClusterLoop([nodes |-> <<>>, edges |-> <<>>, nid |-> 0, rc |-> 0], 1, seed)
    IN  [nodes |-> b.nodes, edges |-> b.edges]

\* ------------------------------------------------------------------ tick
\* a pair repulsion that adds the force to both nodes
RepelPairSameSign(ns, i, j) ==
    LET dx    == ns[i].x - ns[j].x
        dy    == ns[i].y - ns[j].y
        d0    == Hypot(dx, dy)
        dist  == IF d0 = 0 THEN Px(1) ELSE d0
        force == Quot(K_REP * Sub * Sub * Sub, dist * dist)
        fx    == Quot(dx * force, dist)
        fy    == Quot(dy * force, dist)
    IN  [ns EXCEPT ![i].vx = @ + fx, ![i].vy = @ + fy,
                   ![j].vx = @ + fx, ![j].vy = @ + fy]

\* repulsion of the pair (i, j), i < j: the body of the inner loop
RepelPair(ns, i, j) ==
    LET dx    == ns[i].x - ns[j].x
        dy    == ns[i].y - ns[j].y
        d0    == Hypot(dx, dy)
        dist  == IF d0 = 0 THEN Px(1) ELSE d0
        force == Quot(K_REP * Sub * Sub * Sub, dist * dist)
        fx    == Quot(dx * force, dist)
        fy    == Quot(dy * force, dist)
    IN  [ns EXCEPT ![i].vx = @ + fx, ![i].vy = @ + fy,
                   ![j].vx = @ - fx, ![j].vy = @ - fy]

\* the inner loop: j = from .. length - 1 (1-based here)
RECURSIVE RepelInner(_, _, _)
RepelInner(ns, i, j) ==
    IF j > Len(ns) THEN ns ELSE RepelInner(RepelPair(ns, i, j), i, j + 1)

\* the outer loop: i = from .. length - 1 (1-based here)
RECURSIVE RepelOuter(_, _)
RepelOuter(ns, i) ==
    IF i > Len(ns) THEN ns ELSE RepelOuter(RepelInner(ns, i, i + 1), i + 1)

Repulsion(ns) == RepelOuter(ns, 1)

\* localNodes.find(n => n.id === id): index of the first match, 0 if none
Find(ns, id) ==
    IF \E k \in 1..Len(ns) : ns[k].id = id
    THEN CHOOSE k \in 1..Len(ns) :
            ns[k].id = id /\ \A m \in 1..(k - 1) : ns[m].id # id
    ELSE 0

\* attraction along one edge: the body of the edge loop
AttractEdge(ns, e) ==
    LET si == Find(ns, e.source)
        ti == Find(ns, e.target)
    IN  IF si = 0 \/ ti = 0 THEN ns
        ELSE
          LET dx    == ns[ti].x - ns[si].x
              dy    == ns[ti].y - ns[si].y
              d0    == Hypot(dx, dy)
              dist  == IF d0 = 0 THEN Px(1) ELSE d0
              force == Quot((dist - Px(IDEAL)) * 4, 100)
              fx    == Quot(dx * force, dist)
              fy    == Quot(dy * force, dist)
              ns1   == [ns EXCEPT ![si].vx = @ + fx, ![si].vy = @ + fy]
          IN  [ns1 EXCEPT ![ti].vx = @ - fx, ![ti].vy = @ - fy]

RECURSIVE AttractLoop(_, _, _)
AttractLoop(ns, es, k) ==
    \* with no node every find fails; reading ns here keeps evaluation flat
    IF k > Len(es) \/ Len(ns) = 0 THEN ns
    ELSE AttractLoop(AttractEdge(ns, es[k]), es, k + 1)

Attraction(ns, es) == AttractLoop(ns, es, 1)

\* center gravity on one node
GravityNode(n) ==
    [n EXCEPT !.vx = @ + Quot((Quot(Px(W), 2) - n.x) * 5, 1000),
              !.vy = @ + Quot((Quot(Px(H), 2) - n.y) * 5, 1000)]

Gravity(ns) == [k \in 1..Len(ns) |-> GravityNode(ns[k])]

\* dampen + clamp with the upper bound of the clamp forgotten
DampClampNodeNoUpper(n) ==
    LET vx == Quot(n.vx * 85, 100)
        vy == Quot(n.vy * 85, 100)
    IN  [n EXCEPT !.vx = vx, !.vy = vy,
                  !.x = Max(Px(MARGIN), n.x + vx),
                  !.y = Max(Px(MARGIN), n.y + vy)]

\* dampen + clamp on one node
DampClampNode(n) ==
    LET vx == Quot(n.vx * 85, 100)
        vy == Quot(n.vy * 85, 100)
    IN  [n EXCEPT !.vx = vx, !.vy = vy,
                  !.x = Max(Px(MARGIN), Min(Px(W - MARGIN), n.x + vx)),
                  !.y = Max(Px(MARGIN), Min(Px(H - MARGIN), n.y + vy))]

DampClamp(ns) == [k \in 1..Len(ns) |-> DampClampNode(ns[k])]

\* the node list after one call of tick
Tick(ns, es) == DampClamp(Gravity(Attraction(Repulsion(ns), es)))

\* ----------------------------------------------------------------- state
VARIABLES
    initNodes,    \* nodes of the first render's buildGraph(), closed over by the effect
    edges,        \* edges of buildGraph(); the same list on every render
    localNodes,   \* the effect's localNodes: the simulated nodes, with vx, vy
    nodes,        \* React state `nodes`: the list last handed to the renderer
    hovered,      \* id of the hovered node, or None
    selected,     \* id of the selected node, or None
    mousePos,     \* React state `mousePos`
    animRef,      \* animRef.current
    rafQueue,     \* handles of the animation frames requested and not yet run or cancelled
    nextHandle,   \* the handle the next requestAnimationFrame returns
    stopTimer,    \* TRUE while the 3 s `stop` timeout is pending
    mounted,      \* FALSE once the effect's cleanup has run
    ticks,        \* number of calls of tick so far
    clickHist,    \* history of onClick, the last click being on n:
                  \* <<"once", n>> when nothing was selected, <<"twice", n>>
                  \* when it followed <<"once", n>>, <<"off", n>> when n was
                  \* selected otherwise, <<"switch", n>> when another node was
                  \* selected; <<"none", None>> before the first click
    tickPc        \* position inside a running call of tick: the statement to
                  \* run next (at, i, j), the statements run so far per phase
                  \* (ran) and localNodes at entry; Idle between calls

\* The other views of the console, each a component with its own state.
VARIABLES
    alerts,         \* AlertsView: React state `alerts`
    alertInserts,   \* AlertsView: number of firings of the 10 s interval so far
    queue,          \* KYCView: React state `queue`
    kycSelected,    \* KYCView: React state `selected`, a copy of a record, or None
    statusFilter,   \* KYCView: React state `statusFilter`
    txns,           \* TransactionsView: React state `txns`
    search,         \* TransactionsView: React state `search`
    decisionFilter, \* TransactionsView: React state `decisionFilter`
    page,           \* TransactionsView: React state `page`
    values,         \* SettingsView: React state `values` (the risk thresholds)
    saved,          \* SettingsView: React state `saved`
    saveTimers,     \* SettingsView: pending 3 s timeouts, oldest first, each
                    \* the rank of the Save click that set it
    saveHist        \* SettingsView history: clicks on Save so far, and whether
                    \* no edit or Reset followed the last one

graphVars == <<initNodes, edges, localNodes, nodes, hovered, selected, mousePos,
               animRef, rafQueue, nextHandle, stopTimer, mounted, ticks,
               clickHist, tickPc>>
alertVars == <<alerts, alertInserts>>
kycVars == <<queue, kycSelected, statusFilter>>
txnVars == <<txns, search, decisionFilter, page>>
settingsVars == <<values, saved, saveTimers, saveHist>>

\* the state of the views other than the graph
otherViews == <<alertVars, kycVars, txnVars, settingsVars>>

vars == <<initNodes, edges, localNodes, nodes, hovered, selected, mousePos,
          animRef, rafQueue, nextHandle, stopTimer, mounted, ticks, clickHist,
          tickPc, otherViews>>

\* no call of tick is running
Idle == [at |-> "idle", i |-> 0, j |-> 0,
         ran |-> [repel |-> 0, attract |-> 0, gravity |-> 0, damp |-> 0, clamp |-> 0],
         entry |-> <<>>]

\* initNodes.map(n => ({ ...n, vx: 0, vy: 0 }))
WithVelocity(ns) ==
    [k \in 1..Len(ns) |->
        [id |-> ns[k].id, type |-> ns[k].type, risk |-> ns[k].risk,
         label |-> ns[k].label, x |-> ns[k].x, y |-> ns[k].y, vx |-> 0, vy |-> 0]]

\* what the renderer reads of a node list: every field but the velocity
Rendered(ns) ==
    [k \in 1..Len(ns) |->
        [id |-> ns[k].id, type |-> ns[k].type, risk |-> ns[k].risk,
         label |-> ns[k].label, x |-> ns[k].x, y |-> ns[k].y]]

NodeIds == {nodes[k].id : k \in 1..Len(nodes)}

\* ids of the nodes the pointer is moved over
HoverIds == {nodes[k].id : k \in 1..Min(MaxHover, Len(nodes))}

\* pointer positions tried
MousePts == {[x |-> 10 * k, y |-> 7 * k] : k \in 0..MaxMouse}

\* the useState initial values of the views that are not shown
AlertsAbsent ==
    /\ alerts = <<>>
    /\ alertInserts = 0

\* KYCView's `selected` when it is null
NoRecord == [id |-> 0, status |-> None]

KycAbsent ==
    /\ queue = <<>>
    /\ kycSelected = NoRecord
    /\ statusFilter = "all"

TxnsAbsent ==
    /\ txns = <<>>
    /\ search = ""
    /\ decisionFilter = "all"
    /\ page = 0

SettingsAbsent ==
    /\ values = <<>>
    /\ saved = FALSE
    /\ saveTimers = <<>>
    /\ saveHist = [clicks |-> 0, clean |-> TRUE]

\* GraphView not shown: no graph, no frame or timeout pending
GraphAbsent ==
    /\ initNodes = <<>>
    /\ edges = <<>>
    /\ localNodes = <<>>
    /\ nodes = <<>>
    /\ hovered = None
    /\ selected = None
    /\ mousePos = [x |-> 0, y |-> 0]
    /\ rafQueue = {}
    /\ animRef = 0
    /\ nextHandle = 1
    /\ stopTimer = FALSE
    /\ mounted = FALSE
    /\ ticks = 0
    /\ clickHist = <<"none", None>>
    /\ tickPc = Idle

\* the part of the first state that does not depend on the graph:
\* the useState / useRef initial values and the effect's first requests
Mounted ==
    /\ hovered = None
    /\ selected = None
    /\ mousePos = [x |-> 0, y |-> 0]
    /\ rafQueue = {1}
    /\ animRef = 1
    /\ nextHandle = 2
    /\ stopTimer = TRUE
    /\ mounted = TRUE
    /\ ticks = 0
    /\ clickHist = <<"none", None>>
    /\ AlertsAbsent
    /\ KycAbsent
    /\ TxnsAbsent
    /\ SettingsAbsent

\* GraphView after its first render and the run of its effect
Init ==
    /\ \E seed \in 0..(NumSeeds - 1) :
         /\ initNodes = buildGraph(seed).nodes
         /\ edges = buildGraph(seed).edges
    /\ localNodes = WithVelocity(initNodes)
    /\ nodes = initNodes
    /\ Mounted
    /\ tickPc = Idle

\* ------------------------------------------------------------- scheduler
\* cancelAnimationFrame(h) on the queue q
CancelFrame(q, h) == q \ {h}

\* the browser runs a requested frame: one call of tick
\* a frame callback whose tick drops the edges it cannot resolve
FramePrunesEdges ==
    /\ ticks < MaxTicks
    /\ \E h \in rafQueue :
         /\ localNodes' = Tick(localNodes, edges)
         /\ nodes' = Rendered(localNodes')
         /\ rafQueue' = (rafQueue \ {h}) \cup {nextHandle}
         /\ animRef' = nextHandle
         /\ nextHandle' = nextHandle + 1
         /\ ticks' = ticks + 1
    /\ edges' = SelectSeq(edges, LAMBDA e : /\ Find(localNodes, e.source) # 0
                                            /\ Find(localNodes, e.target) # 0)
    /\ UNCHANGED <<initNodes, hovered, selected, mousePos, stopTimer, mounted, clickHist, tickPc, otherViews>>

\* a frame callback whose tick does not keep the handle of its request
FrameForgetsHandle ==
    /\ ticks < MaxTicks
    /\ \E h \in rafQueue :
         /\ localNodes' = Tick(localNodes, edges)
         /\ nodes' = Rendered(localNodes')
         /\ rafQueue' = (rafQueue \ {h}) \cup {nextHandle}
         /\ nextHandle' = nextHandle + 1
         /\ ticks' = ticks + 1
    /\ UNCHANGED <<initNodes, edges, animRef, hovered, selected, mousePos, stopTimer, mounted, clickHist, tickPc, otherViews>>

Frame ==
    /\ ticks < MaxTicks
    /\ \E h \in rafQueue :
         /\ localNodes' = Tick(localNodes, edges)
         /\ nodes' = Rendered(localNodes')
         /\ rafQueue' = (rafQueue \ {h}) \cup {nextHandle}
         /\ animRef' = nextHandle
         /\ nextHandle' = nextHandle + 1
         /\ ticks' = ticks + 1
    /\ UNCHANGED <<initNodes, edges, hovered, selected, mousePos, stopTimer, mounted, clickHist, tickPc, otherViews>>

\* a stop timeout that cancels the handle of the first request, not animRef's
StopTimeoutFirstHandle ==
    /\ stopTimer
    /\ rafQueue' = CancelFrame(rafQueue, 1)
    /\ stopTimer' = FALSE
    /\ UNCHANGED <<initNodes, edges, localNodes, nodes, hovered, selected,
                   mousePos, animRef, nextHandle, mounted, ticks, clickHist, tickPc, otherViews>>

\* the `stop` timeout fires
StopTimeout ==
    /\ stopTimer
    /\ rafQueue' = CancelFrame(rafQueue, animRef)
    /\ stopTimer' = FALSE
    /\ UNCHANGED <<initNodes, edges, localNodes, nodes, hovered, selected,
                   mousePos, animRef, nextHandle, mounted, ticks, clickHist, tickPc, otherViews>>

\* a cleanup that clears the timeout and leaves the requested frame
CleanupLeavesFrame ==
    /\ mounted
    /\ stopTimer' = FALSE
    /\ mounted' = FALSE
    /\ UNCHANGED <<initNodes, edges, localNodes, nodes, hovered, selected,
                   mousePos, animRef, rafQueue, nextHandle, ticks, clickHist, tickPc, otherViews>>

\* the effect's cleanup: the view is torn down
Cleanup ==
    /\ mounted
    /\ rafQueue' = CancelFrame(rafQueue, animRef)
    /\ stopTimer' = FALSE
    /\ mounted' = FALSE
    /\ UNCHANGED <<initNodes, edges, localNodes, nodes, hovered, selected,
                   mousePos, animRef, nextHandle, ticks, clickHist, tickPc, otherViews>>

\* ----------------------------------------------------------- interaction
\* an onClick that selects n without the deselect toggle
ClickNoToggle(n) ==
    /\ mounted
    /\ selected' = n
    /\ clickHist' = IF selected = None THEN <<"once", n>>
                    ELSE IF clickHist = <<"once", n>> THEN <<"twice", n>>
                    ELSE IF selected = n THEN <<"off", n>>
                    ELSE <<"switch", n>>
    /\ UNCHANGED <<initNodes, edges, localNodes, nodes, hovered, mousePos,
                   animRef, rafQueue, nextHandle, stopTimer, mounted, ticks, tickPc, otherViews>>

\* an onClick that keeps the selection when another node is selected
ClickKeepsSelection(n) ==
    /\ mounted
    /\ selected' = IF selected = None THEN n
                   ELSE IF selected = n THEN None ELSE selected
    /\ clickHist' = IF selected = None THEN <<"once", n>>
                    ELSE IF clickHist = <<"once", n>> THEN <<"twice", n>>
                    ELSE IF selected = n THEN <<"off", n>>
                    ELSE <<"switch", n>>
    /\ UNCHANGED <<initNodes, edges, localNodes, nodes, hovered, mousePos,
                   animRef, rafQueue, nextHandle, stopTimer, mounted, ticks, tickPc, otherViews>>

\* onClick of node n
Click(n) ==
    /\ mounted
    /\ selected' = IF selected = n THEN None ELSE n
    /\ clickHist' = IF selected = None THEN <<"once", n>>
                    ELSE IF clickHist = <<"once", n>> THEN <<"twice", n>>
                    ELSE IF selected = n THEN <<"off", n>>
                    ELSE <<"switch", n>>
    /\ UNCHANGED <<initNodes, edges, localNodes, nodes, hovered, mousePos,
                   animRef, rafQueue, nextHandle, stopTimer, mounted, ticks, tickPc, otherViews>>

\* an onMouseEnter that also selects the node
MouseEnterSelects(n) ==
    /\ mounted
    /\ hovered' = n
    /\ selected' = n
    /\ UNCHANGED <<initNodes, edges, localNodes, nodes, mousePos,
                   animRef, rafQueue, nextHandle, stopTimer, mounted, ticks, clickHist, tickPc, otherViews>>

\* onMouseEnter of node n
MouseEnter(n) ==
    /\ mounted
    /\ hovered' = n
    /\ UNCHANGED <<initNodes, edges, localNodes, nodes, selected, mousePos,
                   animRef, rafQueue, nextHandle, stopTimer, mounted, ticks, clickHist, tickPc, otherViews>>

\* onMouseLeave of the node under the pointer
MouseLeave ==
    /\ mounted
    /\ hovered # None
    /\ hovered' = None
    /\ UNCHANGED <<initNodes, edges, localNodes, nodes, selected, mousePos,
                   animRef, rafQueue, nextHandle, stopTimer, mounted, ticks, clickHist, tickPc, otherViews>>

\* onMouseMove of the svg
\* an onMouseMove that drags the first node to the pointer
MouseMoveDrags(p) ==
    /\ mounted
    /\ mousePos' = p
    /\ localNodes' = [localNodes EXCEPT ![1].x = Px(p.x), ![1].y = Px(p.y)]
    /\ nodes' = Rendered(localNodes')
    /\ UNCHANGED <<initNodes, edges, hovered, selected,
                   animRef, rafQueue, nextHandle, stopTimer, mounted, ticks, clickHist, tickPc, otherViews>>

MouseMove(p) ==
    /\ mounted
    /\ mousePos' = p
    /\ UNCHANGED <<initNodes, edges, localNodes, nodes, hovered, selected,
                   animRef, rafQueue, nextHandle, stopTimer, mounted, ticks, clickHist, tickPc, otherViews>>

\* ------------------------------------------------------- derived visuals
\* selNeighbors that follows only the edges leaving sel
selNeighborsOutgoing(sel, es) ==
    IF sel = None THEN {}
    ELSE UNION { {es[k].source, es[k].target} :
                 k \in {m \in 1..Len(es) : es[m].source = sel} }

\* selNeighbors for a selection sel (a node id or None)
selNeighbors(sel, es) ==
    IF sel = None THEN {}
    ELSE UNION { {es[k].source, es[k].target} :
                 k \in {m \in 1..Len(es) : es[m].source = sel \/ es[m].target = sel} }

\* `dim` of the edge e in the edge map
EdgeDim(e) ==
    /\ selected # None
    /\ e.source \notin selNeighbors(selected, edges)
    /\ e.target \notin selNeighbors(selected, edges)

\* the edge is drawn: both endpoints are found in nodeMap
EdgeDrawn(e) == e.source \in NodeIds /\ e.target \in NodeIds

\* `dimmed` of the node with id m in the node map
NodeDimmed(m) ==
    /\ selected # None
    /\ m \notin selNeighbors(selected, edges)
    /\ selected # m

Next ==
    \/ Frame
    \/ StopTimeout
    \/ Cleanup
    \/ \E n \in NodeIds : Click(n)
    \/ \E n \in HoverIds : MouseEnter(n)
    \/ MouseLeave
    \/ \E p \in MousePts : MouseMove(p)

Spec == Init /\ [][Next]_vars

\* ------------------------------------------- the tick on arbitrary graphs
MaxTickNodes == 3    \* nodes of a graph tried for the tick: 2..MaxTickNodes

TickNames == <<"A", "B", "C", "E", "F", "G">>

\* positions tried, in pixels: two points 60 apart, one 200 away, one
\* outside the margin
TickPts == { <<100, 100>>, <<100, 160>>, <<300, 100>>, <<690, 430>> }

\* offsets tried for the first node's x: none, or half a pixel, which puts
\* it closer than one pixel to a node placed on the same point
TickOffsets == {0, Sub \div 2}

\* velocities tried for node k, in pixels per tick: at rest, or fast outward
TickVels == { [k \in 1..MaxTickNodes |-> <<0, 0>>],
              [k \in 1..MaxTickNodes |->
                  IF k % 2 = 1 THEN <<1000, 0 - 1000>> ELSE <<0 - 1000, 1000>>] }

TickEdge(a, b) == [source |-> a, target |-> b, weight |-> 10, type |-> "transaction"]

\* edge lists tried: none, one edge, parallel edges with a third edge
TickEdges == { <<>>,
               <<TickEdge("A", "B")>>,
               <<TickEdge("A", "B"), TickEdge("B", "A"), TickEdge("B", "C")>> }

\* a session on a caller-chosen graph: the first state of the effect with
\* the node positions and velocities the tick is applied to
TickSession ==
    /\ \E n \in 2..MaxTickNodes :
       \E pos \in [1..n -> TickPts] :
       \E vel \in TickVels :
       \E off \in TickOffsets :
         /\ initNodes = [k \in 1..n |->
                [id |-> TickNames[k], type |-> "account", risk |-> 500,
                 label |-> TickNames[k],
                 x |-> Px(pos[k][1]) + (IF k = 1 THEN off ELSE 0),
                 y |-> Px(pos[k][2])]]
         /\ localNodes = [k \in 1..n |->
                [id |-> TickNames[k], type |-> "account", risk |-> 500,
                 label |-> TickNames[k],
                 x |-> Px(pos[k][1]) + (IF k = 1 THEN off ELSE 0),
                 y |-> Px(pos[k][2]),
                 vx |-> Px(vel[k][1]), vy |-> Px(vel[k][2])]]
    /\ edges \in TickEdges
    /\ nodes = initNodes
    /\ Mounted

InitTick ==
    /\ TickSession
    /\ tickPc = Idle

\* the scheduler alone: the steps that call tick or stop it
NextTick ==
    \/ Frame
    \/ StopTimeout
    \/ Cleanup

SpecTick == InitTick /\ [][NextTick]_vars

\* ================================================================ claims
\* GraphView has no statement that throws: whatever buildGraph returns is
\* stored and simulated
ConstructionError(ns, es) == None

\* the edge e has an endpoint that is the id of no node of ns
Unresolved(e, ns) ==
    \/ \A k \in 1..Len(ns) : ns[k].id # e.source
    \/ \A k \in 1..Len(ns) : ns[k].id # e.target

SqDist(a, b) == (a.x - b.x) * (a.x - b.x) + (a.y - b.y) * (a.y - b.y)

\* C1: when some edge of the graph a session is constructed from names a
\* node id that no node has, construction fails with InvalidGraphError
\* before any tick, and the session stores no node and no edge.
C1_InvalidGraphRejected ==
    (\E k \in 1..Len(edges) : Unresolved(edges[k], initNodes))
        => /\ ConstructionError(initNodes, edges) = "InvalidGraphError"
           /\ Len(localNodes) = 0
           /\ Len(nodes) = 0
           /\ ticks = 0

\* C2: in every state of a session every edge's source and target are ids
\* of nodes of the node set, so no edge is skipped by the tick or left
\* undrawn by the renderer.
C2_EdgesResolved ==
    \A k \in 1..Len(edges) :
        /\ ~Unresolved(edges[k], localNodes)
        /\ EdgeDrawn(edges[k])

\* C3: after every tick every node lies inside the canvas minus the margin,
\* 20 <= x <= 680 and 20 <= y <= 420, whatever the positions, velocities
\* and edges before the tick; the list handed to the renderer as well.
C3_TickClamps ==
    ticks > 0 =>
        \A k \in 1..Len(localNodes) :
            /\ Px(20) <= localNodes[k].x /\ localNodes[k].x <= Px(680)
            /\ Px(20) <= localNodes[k].y /\ localNodes[k].y <= Px(420)
            /\ nodes[k].x = localNodes[k].x
            /\ nodes[k].y = localNodes[k].y

\* C3 witness: a tick has run on a graph with a node that was placed outside
\* the margin and was moving outward
C3_Witness ==
    /\ ticks > 0
    /\ \E k \in 1..Len(initNodes) :
          /\ initNodes[k].x > Px(W - MARGIN)
          /\ initNodes[k].y > Px(H - MARGIN)
          /\ localNodes[k].x = Px(W - MARGIN)
          /\ localNodes[k].vx > 0

\* C4: any two distinct nodes with identical coordinates before a tick have
\* different positions after that tick.
C4_CoincidentSeparate ==
    [][ ticks' = ticks + 1 =>
          \A i, j \in 1..Len(localNodes) :
             (i # j /\ localNodes[i].x = localNodes[j].x
                    /\ localNodes[i].y = localNodes[j].y)
                => (localNodes'[i].x # localNodes'[j].x
                    \/ localNodes'[i].y # localNodes'[j].y) ]_vars

\* the attraction of the single edge e applied to ns, then dampen + clamp
AttractOnly(ns, e) == DampClamp(AttractEdge(ns, e))

\* C5: attraction alone, on an edge whose endpoints are at rest: farther
\* apart than idealLength the endpoints end strictly closer, closer than
\* idealLength (distance 0 included) they end strictly farther apart.
C5_AttractionTowardIdeal ==
    \A k \in 1..Len(edges) :
        LET si    == Find(localNodes, edges[k].source)
            ti    == Find(localNodes, edges[k].target)
            after == AttractOnly(localNodes, edges[k])
        IN  (/\ si # 0 /\ ti # 0 /\ si # ti
             /\ localNodes[si].vx = 0 /\ localNodes[si].vy = 0
             /\ localNodes[ti].vx = 0 /\ localNodes[ti].vy = 0)
            => LET before == SqDist(localNodes[si], localNodes[ti])
                   later  == SqDist(after[si], after[ti])
               IN  /\ before > Px(IDEAL) * Px(IDEAL) => later < before
                   /\ before < Px(IDEAL) * Px(IDEAL) => later > before

\* some edge joins the nodes with ids m and n, in either direction
Adjacent(m, n) ==
    \E k \in 1..Len(edges) :
        \/ edges[k].source = m /\ edges[k].target = n
        \/ edges[k].source = n /\ edges[k].target = m

\* C6: for a selected node n the computed neighbor set is exactly the set
\* of ids of the nodes that share an edge with n, and holds no other id.
C6_NeighborsExact ==
    selected # None =>
        selNeighbors(selected, edges)
            = {m \in NodeIds : m # selected /\ Adjacent(m, selected)}

\* C7: while a node n is selected, an edge is dimmed if and only if neither
\* its source nor its target is n.
C7_EdgeDimIffNotTouching ==
    selected # None =>
        \A k \in 1..Len(edges) :
            EdgeDim(edges[k])
                <=> (edges[k].source # selected /\ edges[k].target # selected)

\* C8: while a node n is selected, a node m is dimmed if and only if m is
\* not n and no edge joins m and n in either direction.
C8_NodeDimIffUnrelated ==
    selected # None =>
        \A m \in NodeIds :
            NodeDimmed(m) <=> (m # selected /\ ~Adjacent(m, selected))

\* C8 witness: the selected node is the target of an edge whose source is
\* shown undimmed, while some other node is dimmed
C8_Witness ==
    /\ selected # None
    /\ \E k \in 1..Len(edges) :
          /\ edges[k].target = selected
          /\ edges[k].source \in NodeIds
          /\ ~NodeDimmed(edges[k].source)
    /\ \E m \in NodeIds : NodeDimmed(m)
    /\ ~NodeDimmed(selected)

\* C9: a click on n with nothing selected followed by a second click on n,
\* with any hover, pointer-move and tick steps in between, leaves no node
\* selected and no node or edge dimmed.
C9_ClickTwiceIdle ==
    clickHist[1] = "twice" =>
        /\ selected = None
        /\ \A m \in NodeIds : ~NodeDimmed(m)
        /\ \A k \in 1..Len(edges) : ~EdgeDim(edges[k])

\* C9 witness: the second click on the same node has been handled, after a
\* tick and with the pointer over a node
C9_Witness ==
    /\ clickHist[1] = "twice"
    /\ ticks > 0
    /\ hovered # None

\* C10: once the cleanup has run, no tick executes, no position or velocity
\* changes and no node list is published.
C10_NoTickAfterCancel ==
    [][ ~mounted => /\ ticks' = ticks
                    /\ localNodes' = localNodes
                    /\ nodes' = nodes ]_vars

\* C10 witness: the view was torn down mid-run: a tick had run, the timeout
\* had not fired and further frames were still to come
C10_Witness ==
    /\ ~mounted
    /\ ticks > 0
    /\ ticks < MaxTicks
    /\ rafQueue = {}

\* C11: once the stop timeout has fired no tick executes: no step after it
\* calls tick or changes a node of the simulation.
C11_NoTickAfterSettle ==
    [][ (mounted /\ ~stopTimer) => /\ ticks' = ticks
                                   /\ localNodes' = localNodes ]_vars

\* C11 witness: the timeout fired between two frames, the view still shown
C11_Witness ==
    /\ mounted
    /\ ~stopTimer
    /\ ticks > 0
    /\ ticks < MaxTicks
    /\ rafQueue = {}

\* C12: a click on m with nothing selected, or with another node selected,
\* makes m the selected node; the selection is one node or none.
C12_ClickSelects ==
    /\ selected \in NodeIds \cup {None}
    /\ clickHist[1] \in {"once", "switch"} => selected = clickHist[2]

\* C12 witness: the last click was on a node while another one was selected
C12_Witness ==
    /\ clickHist[1] = "switch"
    /\ selected = clickHist[2]

\* C13: a step that changes the hovered node changes neither the selection
\* nor the dimming of any node or edge, and the hovered node is a node or
\* none; a step that changes the selection leaves the hovered node.
C13_HoverIndependent ==
    [][ /\ hovered' \in NodeIds \cup {None}
        /\ hovered' # hovered =>
              /\ selected' = selected
              /\ \A m \in NodeIds : NodeDimmed(m)' <=> NodeDimmed(m)
              /\ \A k \in 1..Len(edges) : EdgeDim(edges[k])' <=> EdgeDim(edges[k])
        /\ selected' # selected => hovered' = hovered ]_vars

\* C13 witness: one node is hovered while a different node is selected
C13_Witness ==
    /\ hovered # None
    /\ selected # None
    /\ hovered # selected

\* the fields of a node list that are not its layout
Static(ns) ==
    [k \in 1..Len(ns) |->
        [id |-> ns[k].id, type |-> ns[k].type, risk |-> ns[k].risk,
         label |-> ns[k].label]]

\* C15: no step (tick, hover, click, pointer move, timeout, unmount) adds or
\* removes a node or an edge, or changes a node's id, type, risk or label or
\* any field of an edge.
C15_TopologyFrozen ==
    [][ /\ edges' = edges
        /\ Static(localNodes') = Static(localNodes)
        /\ Static(nodes') = Static(nodes)
        /\ Static(nodes') = Static(initNodes) ]_vars

\* C15 witness: ticks have moved a node and the user has hovered, clicked
\* and moved the pointer
C15_Witness ==
    /\ ticks > 0
    /\ \E k \in 1..Len(nodes) : nodes[k].x # initNodes[k].x
    /\ hovered # None
    /\ selected # None
    /\ mousePos.x > 0

\* C16: whenever the simulation is not running (no tick has run yet, or no
\* frame is pending after the timeout or the unmount) every node's velocity
\* is (0, 0).
C16_VelocityZeroAtRest ==
    (ticks = 0 \/ rafQueue = {}) =>
        \A k \in 1..Len(localNodes) :
            localNodes[k].vx = 0 /\ localNodes[k].vy = 0

\* the size of the velocity change edge e applies to its source in a tick
AttractDelta(ns, e) ==
    LET si  == Find(ns, e.source)
        ns1 == AttractEdge(ns, e)
    IN  IF si = 0 THEN 0
        ELSE Abs(ns1[si].vx - ns[si].vx) + Abs(ns1[si].vy - ns[si].vy)

\* C17: for the same endpoint positions an edge of larger weight changes its
\* endpoints' velocities by more than an edge of smaller weight (wherever
\* the edge applies a force at all).
C17_WeightScalesAttraction ==
    \A k \in 1..Len(edges) :
        LET e     == edges[k]
            heavy == [e EXCEPT !.weight = 2 * @]
        IN  AttractDelta(localNodes, e) > 0 =>
                AttractDelta(localNodes, heavy) > AttractDelta(localNodes, e)

\* C19: a step that is not a tick (hover, click, pointer move, timeout,
\* unmount) leaves every node's position and velocity unchanged.
C19_OnlyTickMoves ==
    [][ ticks' = ticks => /\ localNodes' = localNodes
                          /\ nodes' = nodes
                          /\ initNodes' = initNodes ]_vars

\* C19 witness: after a tick the user hovered, clicked and moved the pointer,
\* the timeout fired and the view was unmounted
C19_Witness ==
    /\ ticks > 0
    /\ hovered # None
    /\ clickHist[1] # "none"
    /\ mousePos.x > 0
    /\ ~stopTimer
    /\ ~mounted

\* C20: every position the renderer reads lies inside the canvas less the
\* margin, the placement of buildGraph shown before the first tick included.
C20_RenderedInBounds ==
    \A k \in 1..Len(nodes) :
        /\ nodes[k].x >= Px(MARGIN) /\ nodes[k].x <= Px(W - MARGIN)
        /\ nodes[k].y >= Px(MARGIN) /\ nodes[k].y <= Px(H - MARGIN)

\* ---------------------------------------------- the statements of one tick
\* The frame callback runs tick to completion; SpecPhases follows one call
\* statement by statement, localNodes being the list the statements mutate.

\* n.vx *= 0.85; n.vy *= 0.85
DampNode(n) ==
    [n EXCEPT !.vx = Quot(n.vx * 85, 100), !.vy = Quot(n.vy * 85, 100)]

\* n.x = Math.max(20, Math.min(W - 20, n.x + n.vx)), and the same for y
ClampNode(n) ==
    [n EXCEPT !.x = Max(Px(MARGIN), Min(Px(W - MARGIN), n.x + n.vx)),
              !.y = Max(Px(MARGIN), Min(Px(H - MARGIN), n.y + n.vy))]

\* entry of tick on a list of at least two nodes: the first pair of the
\* repulsion loop
Entry(ns) == [Idle EXCEPT !.at = "repel", !.i = 1, !.j = 2, !.entry = ns]

\* a tick whose last loop is split in two: every node is damped, then every
\* node is moved
NextPcFivePhases(p, n, m) ==
    CASE p.at = "repel" ->
            IF p.j < n THEN [p EXCEPT !.j = @ + 1]
            ELSE IF p.i + 1 < n THEN [p EXCEPT !.i = @ + 1, !.j = p.i + 2]
            ELSE IF m > 0 THEN [p EXCEPT !.at = "attract", !.i = 1, !.j = 0]
            ELSE [p EXCEPT !.at = "gravity", !.i = 1, !.j = 0]
      [] p.at = "attract" ->
            IF p.i < m THEN [p EXCEPT !.i = @ + 1]
            ELSE [p EXCEPT !.at = "gravity", !.i = 1]
      [] p.at = "gravity" ->
            IF p.i < n THEN [p EXCEPT !.i = @ + 1]
            ELSE [p EXCEPT !.at = "damp", !.i = 1]
      [] p.at = "damp" ->
            IF p.i < n THEN [p EXCEPT !.i = @ + 1]
            ELSE [p EXCEPT !.at = "clamp", !.i = 1]
      [] p.at = "clamp" ->
            IF p.i < n THEN [p EXCEPT !.i = @ + 1]
            ELSE [p EXCEPT !.at = "publish", !.i = 0]
      [] OTHER -> [p EXCEPT !.at = "done"]

\* the statement tick runs after the one at p, on n nodes and m edges: the
\* nested pair loop, the edge loop, the gravity loop, then one loop whose
\* body dampens a node and moves it, then setNodes
NextPc(p, n, m) ==
    CASE p.at = "repel" ->
            IF p.j < n THEN [p EXCEPT !.j = @ + 1]
            ELSE IF p.i + 1 < n THEN [p EXCEPT !.i = @ + 1, !.j = p.i + 2]
            ELSE IF m > 0 THEN [p EXCEPT !.at = "attract", !.i = 1, !.j = 0]
            ELSE [p EXCEPT !.at = "gravity", !.i = 1, !.j = 0]
      [] p.at = "attract" ->
            IF p.i < m THEN [p EXCEPT !.i = @ + 1]
            ELSE [p EXCEPT !.at = "gravity", !.i = 1]
      [] p.at = "gravity" ->
            IF p.i < n THEN [p EXCEPT !.i = @ + 1]
            ELSE [p EXCEPT !.at = "damp", !.i = 1]
      [] p.at = "damp" -> [p EXCEPT !.at = "clamp"]
      [] p.at = "clamp" ->
            IF p.i < n THEN [p EXCEPT !.at = "damp", !.i = @ + 1]
            ELSE [p EXCEPT !.at = "publish", !.i = 0]
      [] OTHER -> [p EXCEPT !.at = "done"]

\* the position after the statement at p has run, the statement counted
Advance(p) ==
    LET q == NextPc(p, Len(localNodes), Len(edges))
    IN  IF p.at \in DOMAIN p.ran THEN [q EXCEPT !.ran[p.at] = @ + 1] ELSE q

TickFrame == <<initNodes, edges, hovered, selected, mousePos, stopTimer,
               mounted, clickHist, otherViews>>

\* the body of the pair loop, for the pair (i, j)
RepelStmt ==
    /\ tickPc.at = "repel"
    /\ localNodes' = RepelPair(localNodes, tickPc.i, tickPc.j)
    /\ tickPc' = Advance(tickPc)
    /\ UNCHANGED <<TickFrame, nodes, animRef, rafQueue, nextHandle, ticks>>

\* the body of the edge loop, for edge i
AttractStmt ==
    /\ tickPc.at = "attract"
    /\ localNodes' = AttractEdge(localNodes, edges[tickPc.i])
    /\ tickPc' = Advance(tickPc)
    /\ UNCHANGED <<TickFrame, nodes, animRef, rafQueue, nextHandle, ticks>>

\* the body of the gravity loop, for node i
GravityStmt ==
    /\ tickPc.at = "gravity"
    /\ localNodes' = [localNodes EXCEPT ![tickPc.i] = GravityNode(@)]
    /\ tickPc' = Advance(tickPc)
    /\ UNCHANGED <<TickFrame, nodes, animRef, rafQueue, nextHandle, ticks>>

\* the first statement of the last loop, for node i
DampStmt ==
    /\ tickPc.at = "damp"
    /\ localNodes' = [localNodes EXCEPT ![tickPc.i] = DampNode(@)]
    /\ tickPc' = Advance(tickPc)
    /\ UNCHANGED <<TickFrame, nodes, animRef, rafQueue, nextHandle, ticks>>

\* the last two statements of the last loop, for node i
ClampStmt ==
    /\ tickPc.at = "clamp"
    /\ localNodes' = [localNodes EXCEPT ![tickPc.i] = ClampNode(@)]
    /\ tickPc' = Advance(tickPc)
    /\ UNCHANGED <<TickFrame, nodes, animRef, rafQueue, nextHandle, ticks>>

\* setNodes([...localNodes]); animRef.current = requestAnimationFrame(tick)
PublishStmt ==
    /\ tickPc.at = "publish"
    /\ nodes' = Rendered(localNodes)
    /\ rafQueue' = rafQueue \cup {nextHandle}
    /\ animRef' = nextHandle
    /\ nextHandle' = nextHandle + 1
    /\ ticks' = ticks + 1
    /\ tickPc' = Advance(tickPc)
    /\ UNCHANGED <<TickFrame, localNodes>>

\* the first frame callback has been taken off the queue and enters tick
InitPhases ==
    /\ TickSession
    /\ tickPc = Entry(localNodes)

NextPhases ==
    \/ RepelStmt
    \/ AttractStmt
    \/ GravityStmt
    \/ DampStmt
    \/ ClampStmt
    \/ PublishStmt

SpecPhases == InitPhases /\ [][NextPhases]_vars

\* number of pairs the repulsion loop visits on n nodes
Pairs(n) == (n * (n - 1)) \div 2

\* C18 (as stated): in a tick the phases repulsion, attraction, gravity,
\* damping, integration each complete for all nodes before the next starts
\* for any node; no position is integrated before every velocity is damped.
C18_PhasesSequential ==
    LET r == tickPc.ran
        n == Len(localNodes)
    IN  /\ r.attract > 0 => r.repel = Pairs(n)
        /\ r.gravity > 0 => r.repel = Pairs(n) /\ r.attract = Len(edges)
        /\ r.damp > 0    => r.gravity = n
        /\ r.clamp > 0   => r.damp = n

\* C18 (amended): repulsion, attraction and gravity each complete before
\* the next phase starts and before any damping; damping and integration
\* share one loop, node k being damped and then moved before node k + 1 is
\* damped; the list the tick leaves is the one Tick computes.
C18_PhasesAsCoded ==
    LET r == tickPc.ran
        n == Len(localNodes)
    IN  /\ r.attract > 0 => r.repel = Pairs(n)
        /\ r.gravity > 0 => r.repel = Pairs(n) /\ r.attract = Len(edges)
        /\ r.damp > 0    => r.gravity = n
        /\ r.clamp <= r.damp /\ r.damp <= r.clamp + 1
        /\ tickPc.at = "damp"  => r.damp = r.clamp /\ tickPc.i = r.damp + 1
        /\ tickPc.at = "clamp" => r.damp = r.clamp + 1 /\ tickPc.i = r.damp
        /\ tickPc.at = "done"  =>
              /\ r.damp = n /\ r.clamp = n
              /\ localNodes = Tick(tickPc.entry, edges)
              /\ nodes = Rendered(localNodes)

\* C18 witness: a tick on three nodes and three edges ran to its end, and
\* it moved a node
C18_Witness ==
    /\ tickPc.at = "done"
    /\ Len(localNodes) = 3
    /\ tickPc.ran.attract = 3
    /\ tickPc.ran.clamp = 3
    /\ localNodes # tickPc.entry

\* the velocity change the pair (i, j) adds to node k in the repulsion loop
RepelDelta(ns, i, j, k) ==
    LET after == RepelPair(ns, i, j)
    IN  <<after[k].vx - ns[k].vx, after[k].vy - ns[k].vy>>

\* C21: the repulsive force applied to any pair in a tick is positive and at
\* most k_rep / epsilon^2 = 1200 pixels per tick, for coincident pairs and
\* for pairs closer than one pixel alike (stated on the components of the
\* velocity change of the pair's first node).
C21_RepulsionBounded ==
    \A i, j \in 1..Len(localNodes) :
        i < j =>
            LET d == RepelDelta(localNodes, i, j, i)
            IN  /\ d[1] # 0 \/ d[2] # 0
                /\ Abs(d[1]) <= Px(K_REP)
                /\ Abs(d[2]) <= Px(K_REP)

\* the sum of the velocities of the nodes k..Len(ns)
RECURSIVE SumVel(_, _)
SumVel(ns, k) ==
    IF k > Len(ns) THEN <<0, 0>>
    ELSE LET r == SumVel(ns, k + 1)
         IN  <<ns[k].vx + r[1], ns[k].vy + r[2]>>

\* the velocity change edge e adds to node k in the attraction loop
AttractEdgeDelta(ns, e, k) ==
    LET after == AttractEdge(ns, e)
    IN  <<after[k].vx - ns[k].vx, after[k].vy - ns[k].vy>>

\* C22: the pair about to be repelled and the edge about to attract change
\* their two nodes' velocities by exactly opposite amounts, and until the
\* gravity loop starts the sum of all velocities is the one at entry.
C22_EqualAndOpposite ==
    /\ tickPc.at = "repel" =>
          LET a == RepelDelta(localNodes, tickPc.i, tickPc.j, tickPc.i)
              b == RepelDelta(localNodes, tickPc.i, tickPc.j, tickPc.j)
          IN  a[1] = 0 - b[1] /\ a[2] = 0 - b[2]
    /\ tickPc.at = "attract" =>
          LET e  == edges[tickPc.i]
              si == Find(localNodes, e.source)
              ti == Find(localNodes, e.target)
          IN  (si # 0 /\ ti # 0 /\ si # ti) =>
                 LET a == AttractEdgeDelta(localNodes, e, si)
                     b == AttractEdgeDelta(localNodes, e, ti)
                 IN  a[1] = 0 - b[1] /\ a[2] = 0 - b[2]
    /\ (tickPc.at # "idle" /\ tickPc.ran.gravity = 0) =>
          SumVel(localNodes, 1) = SumVel(tickPc.entry, 1)

\* C22 witness: the repulsion and attraction loops of a tick on three nodes
\* and three edges have run and changed a velocity
C22_Witness ==
    /\ tickPc.at = "gravity"
    /\ tickPc.ran.gravity = 0
    /\ tickPc.ran.repel = 3
    /\ tickPc.ran.attract = 3
    /\ \E k \in 1..Len(localNodes) : localNodes[k].vx # tickPc.entry[k].vx

\* C23: at most one animation frame is pending and it is the one animRef
\* names; the mount requests one frame and every tick exactly one more; while
\* the view is shown and the timeout has not fired a frame is pending.
C23_OneFramePending ==
    /\ Cardinality(rafQueue) <= 1
    /\ rafQueue \subseteq {animRef}
    /\ nextHandle = ticks + 2
    /\ animRef = nextHandle - 1
    /\ (mounted /\ stopTimer) => rafQueue = {animRef}

\* C23 witness: two ticks have run and the frame of the second is pending
C23_Witness ==
    /\ ticks > 1
    /\ mounted
    /\ stopTimer
    /\ rafQueue = {animRef}

\* ============================================================ mock data
\* Math.random() inside one call of a generator: the values tried, in
\* thousandths, and the k-th value of the call under draw d. Draw 0 runs
\* through all the values, draw d never takes the last d of them, so the
\* draws differ in how often each outcome occurs.
NumDraws == 2

DrawVals == <<0, 200, 450, 700, 999>>

Draw(d, k) ==
    DrawVals[((k + (k \div (Len(DrawVals) + d))) % (Len(DrawVals) - d)) + 1]

\* arr.sort by created_at, newest first: the elements in the order of their
\* age (the random value subtracted from Date.now()), equal ages keeping
\* their order
RECURSIVE SortByAge(_, _)
SortByAge(as, v) ==
    IF v > Len(DrawVals) THEN <<>>
    ELSE SelectSeq(as, LAMBDA a : a.age = DrawVals[v]) \o SortByAge(as, v + 1)

\* drops the age once the list is sorted; an alert is its id (the number n
\* of `ALT-n`) and its resolved flag, the fields the handlers read
AlertOf(a) == [id |-> a.id, resolved |-> a.resolved]

\* genAlerts(count) under draw d; each alert takes six random values, the
\* fifth its age and the sixth its resolved flag
genAlerts(count, d) ==
    LET made == [i \in 1..count |->
                    [id       |-> (i - 1) + 1000,
                     age      |-> Draw(d, 6 * (i - 1) + 5),
                     resolved |-> Draw(d, 6 * (i - 1) + 6) < 250]]
        sorted == SortByAge(made, 1)
    IN  [k \in 1..count |-> AlertOf(sorted[k])]

\* ============================================================ AlertsView
MaxInserts == 22      \* firings of the 10 s interval followed
MaxResolveIds == 2    \* ids a click on Resolve is tried for: ALT-1000, ...

AlertsLoaded == 30
AlertsKept == 50

\* prev.map(a => a.id === id ? { ...a, resolved: true } : a)
resolve(as, id) ==
    [k \in 1..Len(as) |-> IF as[k].id = id THEN [as[k] EXCEPT !.resolved = TRUE]
                          ELSE as[k]]

\* an interval callback that does not cut the list
TimerInsertNoCap ==
    /\ alertInserts < MaxInserts
    /\ \E d \in 0..(NumDraws - 1) :
         LET fresh == [genAlerts(1, d)[1] EXCEPT !.resolved = FALSE]
         IN  alerts' = <<fresh>> \o alerts
    /\ alertInserts' = alertInserts + 1
    /\ UNCHANGED <<graphVars, kycVars, txnVars, settingsVars>>

\* the callback of the 10 s interval
TimerInsert ==
    /\ alertInserts < MaxInserts
    /\ \E d \in 0..(NumDraws - 1) :
         LET fresh == [genAlerts(1, d)[1] EXCEPT !.resolved = FALSE]
             all   == <<fresh>> \o alerts
         IN  alerts' = SubSeq(all, 1, Min(AlertsKept, Len(all)))
    /\ alertInserts' = alertInserts + 1
    /\ UNCHANGED <<graphVars, kycVars, txnVars, settingsVars>>

\* a click on the Resolve button of an unresolved alert with this id
Resolve(id) ==
    /\ \E k \in 1..Len(alerts) : alerts[k].id = id /\ ~alerts[k].resolved
    /\ alerts' = resolve(alerts, id)
    /\ UNCHANGED <<alertInserts, graphVars, kycVars, txnVars, settingsVars>>

\* a click on Refresh
RefreshAlerts ==
    /\ \E d \in 0..(NumDraws - 1) : alerts' = genAlerts(AlertsLoaded, d)
    /\ UNCHANGED <<alertInserts, graphVars, kycVars, txnVars, settingsVars>>

\* AlertsView after its mount effects
InitAlerts ==
    /\ \E d \in 0..(NumDraws - 1) : alerts = genAlerts(AlertsLoaded, d)
    /\ alertInserts = 0
    /\ GraphAbsent
    /\ KycAbsent
    /\ TxnsAbsent
    /\ SettingsAbsent

NextAlerts ==
    \/ TimerInsert
    \/ \E id \in 1000..(1000 + MaxResolveIds - 1) : Resolve(id)
    \/ RefreshAlerts

SpecAlerts == InitAlerts /\ [][NextAlerts]_vars

\* C24: the ids of the list are pairwise distinct, and a click on Resolve
\* marks exactly one alert as resolved and leaves every other alert as it is.
C24_ResolveMarksOne ==
    /\ \A i, j \in 1..Len(alerts) : i # j => alerts[i].id # alerts[j].id
    /\ \A k \in 1..Len(alerts) :
          ~alerts[k].resolved =>
              LET after == resolve(alerts, alerts[k].id)
              IN  Cardinality({j \in 1..Len(alerts) : after[j] # alerts[j]}) = 1

\* C25: the list never holds more than 50 alerts, and a firing of the
\* interval puts one unresolved alert at the head, keeps every alert that
\* was there in its order, unchanged, and drops only those beyond the 50th.
C25_TimerInsertCaps ==
    /\ [](Len(alerts) <= AlertsKept)
    /\ [][ alertInserts' = alertInserts + 1 =>
             /\ ~alerts'[1].resolved
             /\ Len(alerts') = Min(AlertsKept, Len(alerts) + 1)
             /\ \A k \in 2..Len(alerts') : alerts'[k] = alerts[k - 1] ]_vars

\* C25 witness: the interval has fired on a full list, after a Resolve
C25_Witness ==
    /\ Len(alerts) = AlertsKept
    /\ alertInserts > AlertsKept - AlertsLoaded
    /\ ~alerts[1].resolved
    /\ \E k \in 2..Len(alerts) : alerts[k].id = 1000 /\ alerts[k].resolved

\* ============================================================== KYCView
MaxKycIds == 3     \* records a click on a row is tried for: KYC-1000, ...

KycLoaded == 16

statuses == <<"pending", "in_review", "in_review", "approved", "rejected">>

\* rank of the first random value record i (from 0) of genKYCQueue takes: a
\* record takes seven values, or eight when its sixth is not below 0.3 and
\* the second test of risk_flags is evaluated
RECURSIVE KycStart(_, _)
KycStart(d, i) ==
    IF i = 0 THEN 1
    ELSE LET s == KycStart(d, i - 1)
         IN  s + (IF Draw(d, s + 5) < 300 THEN 7 ELSE 8)

\* genKYCQueue(count) under draw d; a record is its id (the number n of
\* `KYC-n`) and its status, the fifth random value of the record
genKYCQueue(count, d) ==
    [i \in 1..count |->
        [id     |-> 1000 + (i - 1),
         status |-> statuses[((Draw(d, KycStart(d, i - 1) + 4) * Len(statuses)) \div 1000) + 1]]]

\* queue.filter(r => statusFilter === "all" || r.status === statusFilter)
KycFiltered ==
    SelectSeq(queue, LAMBDA r : statusFilter = "all" \/ r.status = statusFilter)

\* the body of approve(id) and reject(id), st the status they set
Decide(id, st) ==
    /\ queue' = [k \in 1..Len(queue) |->
                    IF queue[k].id = id THEN [queue[k] EXCEPT !.status = st]
                    ELSE queue[k]]
    /\ kycSelected' = IF kycSelected # NoRecord /\ kycSelected.id = id
                      THEN [kycSelected EXCEPT !.status = st]
                      ELSE kycSelected

\* the Approve and Reject buttons are drawn
ButtonsShown ==
    /\ kycSelected # NoRecord
    /\ kycSelected.status \in {"pending", "in_review"}

\* a click on Approve in the detail panel
Approve ==
    /\ ButtonsShown
    /\ Decide(kycSelected.id, "approved")
    /\ UNCHANGED <<statusFilter, graphVars, alertVars, txnVars, settingsVars>>

\* a click on Reject in the detail panel
Reject ==
    /\ ButtonsShown
    /\ Decide(kycSelected.id, "rejected")
    /\ UNCHANGED <<statusFilter, graphVars, alertVars, txnVars, settingsVars>>

\* a click on the row of record k of the filtered list
SelectRecord(k) ==
    /\ k \in 1..Len(KycFiltered)
    /\ KycFiltered[k].id < 1000 + MaxKycIds
    /\ kycSelected' = KycFiltered[k]
    /\ UNCHANGED <<queue, statusFilter, graphVars, alertVars, txnVars, settingsVars>>

\* a change of the status filter
SetStatusFilter(f) ==
    /\ statusFilter' = f
    /\ UNCHANGED <<queue, kycSelected, graphVars, alertVars, txnVars, settingsVars>>

\* a click on Refresh
RefreshKyc ==
    /\ \E d \in 0..(NumDraws - 1) : queue' = genKYCQueue(KycLoaded, d)
    /\ UNCHANGED <<kycSelected, statusFilter, graphVars, alertVars, txnVars,
                   settingsVars>>

\* KYCView after its mount effect
InitKyc ==
    /\ \E d \in 0..(NumDraws - 1) : queue = genKYCQueue(KycLoaded, d)
    /\ kycSelected = NoRecord
    /\ statusFilter = "all"
    /\ GraphAbsent
    /\ AlertsAbsent
    /\ TxnsAbsent
    /\ SettingsAbsent

NextKyc ==
    \/ Approve
    \/ Reject
    \/ \E k \in 1..KycLoaded : SelectRecord(k)
    \/ \E f \in {"all", "pending", "in_review", "approved", "rejected"} :
          SetStatusFilter(f)
    \/ RefreshKyc

SpecKyc == InitKyc /\ [][NextKyc]_vars

\* C26: approved and rejected are terminal: no click on Approve or Reject
\* changes the status of a queue record that is approved or rejected.
C26_DecisionsTerminal ==
    [][ (Approve \/ Reject) =>
          \A k \in 1..Len(queue) :
              queue[k].status \in {"approved", "rejected"} =>
                  queue'[k].status = queue[k].status ]_vars

\* C27: the record shown in the detail panel has the status of the queue
\* record with the same id.
C27_DetailMatchesQueue ==
    kycSelected # NoRecord =>
        \A k \in 1..Len(queue) :
            queue[k].id = kycSelected.id => queue[k].status = kycSelected.status

\* ===================================================== TransactionsView
PAGE_SIZE == 12
TxnsLoaded == 100

DECISIONS == <<"approved", "approved", "approved", "approved", "flagged",
               "hard_blocked", "stepup_auth">>
MERCHANTS == <<"Amazon", "Stripe", "Shopify", "PayPal", "Coinbase", "Revolut",
               "Wise", "Binance", "Klarna", "Afterpay">>

\* s.toLowerCase() on the merchant names and the search terms tried
LowerCased ==
    [m \in {MERCHANTS[k] : k \in 1..Len(MERCHANTS)} |->
        CASE m = "Amazon" -> "amazon"     [] m = "Stripe" -> "stripe"
          [] m = "Shopify" -> "shopify"   [] m = "PayPal" -> "paypal"
          [] m = "Coinbase" -> "coinbase" [] m = "Revolut" -> "revolut"
          [] m = "Wise" -> "wise"         [] m = "Binance" -> "binance"
          [] m = "Klarna" -> "klarna"     [] m = "Afterpay" -> "afterpay"]

toLowerCase(str) == IF str \in DOMAIN LowerCased THEN LowerCased[str] ELSE str

\* search terms tried: none, merchant names as typed, one matching nothing
SearchTerms == {"", "shopify", "Amazon", "coinbase", "Binance", "zzz"}

\* drops the age once the list is sorted; a transaction is its decision and
\* its merchant, the fields the filters of the terms tried can match
TxnOf(t) == [decision |-> t.decision, merchant |-> t.merchant]

\* genTxns(count) under draw d; each transaction takes ten random values,
\* the first its decision, the sixth its merchant, the tenth its age
genTxns(count, d) ==
    LET made == [i \in 1..count |->
                    [decision |-> DECISIONS[((Draw(d, 10 * (i - 1) + 1) * Len(DECISIONS)) \div 1000) + 1],
                     merchant |-> MERCHANTS[((Draw(d, 10 * (i - 1) + 6) * Len(MERCHANTS)) \div 1000) + 1],
                     age      |-> Draw(d, 10 * (i - 1) + 10)]]
        sorted == SortByAge(made, 1)
    IN  [k \in 1..count |-> TxnOf(sorted[k])]

\* matchSearch of the terms tried: a merchant name matches the transactions
\* of that merchant, whatever its case; "zzz" is in no id, user or merchant
matchSearch(t, term) ==
    \/ term = ""
    \/ toLowerCase(t.merchant) = toLowerCase(term)

filtered ==
    SelectSeq(txns, LAMBDA t :
        /\ matchSearch(t, search)
        /\ (decisionFilter = "all" \/ t.decision = decisionFilter))

\* Math.ceil(filtered.length / PAGE_SIZE)
totalPages == (Len(filtered) + PAGE_SIZE - 1) \div PAGE_SIZE

\* onChange of the search box
SetSearch(term) ==
    /\ search' = term
    /\ page' = 0
    /\ UNCHANGED <<txns, decisionFilter, graphVars, alertVars, kycVars, settingsVars>>

\* onChange of the decision filter
SetDecisionFilter(f) ==
    /\ decisionFilter' = f
    /\ page' = 0
    /\ UNCHANGED <<txns, search, graphVars, alertVars, kycVars, settingsVars>>

\* a click on Prev, enabled unless page === 0
PrevPage ==
    /\ page # 0
    /\ page' = page - 1
    /\ UNCHANGED <<txns, search, decisionFilter, graphVars, alertVars, kycVars,
                   settingsVars>>

\* a click on Next, enabled unless page >= totalPages - 1
NextPage ==
    /\ ~(page >= totalPages - 1)
    /\ page' = page + 1
    /\ UNCHANGED <<txns, search, decisionFilter, graphVars, alertVars, kycVars,
                   settingsVars>>

\* a click on Refresh
RefreshTxns ==
    /\ \E d \in 0..(NumDraws - 1) : txns' = genTxns(TxnsLoaded, d)
    /\ UNCHANGED <<search, decisionFilter, page, graphVars, alertVars, kycVars,
                   settingsVars>>

\* TransactionsView after its mount effect
InitTxns ==
    /\ \E d \in 0..(NumDraws - 1) : txns = genTxns(TxnsLoaded, d)
    /\ search = ""
    /\ decisionFilter = "all"
    /\ page = 0
    /\ GraphAbsent
    /\ AlertsAbsent
    /\ KycAbsent
    /\ SettingsAbsent

NextTxns ==
    \/ \E term \in SearchTerms : SetSearch(term)
    \/ \E f \in {"all", "approved", "flagged", "hard_blocked", "stepup_auth"} :
          SetDecisionFilter(f)
    \/ PrevPage
    \/ NextPage
    \/ RefreshTxns

SpecTxns == InitTxns /\ [][NextTxns]_vars

\* C28: the page index is at least 0 and at most max(totalPages - 1, 0):
\* the page shown is never past the last page of the filtered list.
C28_PageInRange ==
    /\ 0 <= page
    /\ page <= Max(totalPages - 1, 0)

\* ---------------------------------------------------------------------------
\* SettingsView: thresholds, Save, Reset
\* ---------------------------------------------------------------------------

\* Save clicks explored
MaxSaves == 2

\* the risk scores are held in hundredths: 0.30 is 30
DEFAULTS ==
    [approve |-> 30, stepup |-> 50, flag |-> 65, block |-> 80,
     vel_1h |-> 20, vel_24h |-> 80, amt_1h |-> 5000, geo_delta |-> 800,
     retrain_days |-> 7, shap_features |-> 10]

\* the sliders of SECTIONS, in the order they are rendered
FIELDS ==
    << [key |-> "approve", value |-> 30, min |-> 5, max |-> 50],
       [key |-> "stepup", value |-> 50, min |-> 30, max |-> 70],
       [key |-> "flag", value |-> 65, min |-> 50, max |-> 85],
       [key |-> "block", value |-> 80, min |-> 65, max |-> 99],
       [key |-> "vel_1h", value |-> 20, min |-> 5, max |-> 100],
       [key |-> "vel_24h", value |-> 80, min |-> 20, max |-> 500],
       [key |-> "amt_1h", value |-> 5000, min |-> 500, max |-> 50000],
       [key |-> "geo_delta", value |-> 800, min |-> 100, max |-> 5000],
       [key |-> "retrain_days", value |-> 7, min |-> 1, max |-> 30],
       [key |-> "shap_features", value |-> 10, min |-> 5, max |-> 25] >>

\* the fields of the section "Risk Score Thresholds"
RiskKeys == {"approve", "stepup", "flag", "block"}

\* the positions a slider is dragged to: a range input only yields values of
\* [min, max]; the risk sliders are tried at both ends and at their default,
\* the other sliders at their upper end
SliderStops(f) ==
    IF f.key \in RiskKeys THEN {f.min, f.value, f.max} ELSE {f.max}

\* set(key, val): the onChange of a slider
SetValue(key, val) ==
    /\ values' = [values EXCEPT ![key] = val]
    /\ saved' = FALSE
    /\ saveHist' = [saveHist EXCEPT !.clean = FALSE]
    /\ UNCHANGED <<saveTimers, graphVars, alertVars, kycVars, txnVars>>

\* reset(): a click on Reset Defaults
ResetDefaults ==
    /\ values' = DEFAULTS
    /\ saved' = FALSE
    /\ saveHist' = [saveHist EXCEPT !.clean = FALSE]
    /\ UNCHANGED <<saveTimers, graphVars, alertVars, kycVars, txnVars>>

\* save(): a click on Save Configuration sets the indicator and starts a 3 s
\* timeout, whose handle is dropped
Save ==
    /\ saveHist.clicks < MaxSaves
    /\ saved' = TRUE
    /\ saveTimers' = Append(saveTimers, saveHist.clicks + 1)
    /\ saveHist' = [clicks |-> saveHist.clicks + 1, clean |-> TRUE]
    /\ UNCHANGED <<values, graphVars, alertVars, kycVars, txnVars>>

\* the callback of the oldest pending timeout: all timeouts have the same
\* delay, so they fire in the order of the clicks
SaveTimeout ==
    /\ saveTimers # <<>>
    /\ saved' = FALSE
    /\ saveTimers' = Tail(saveTimers)
    /\ UNCHANGED <<values, saveHist, graphVars, alertVars, kycVars, txnVars>>

\* SettingsView as constructed
InitSettings ==
    /\ values = DEFAULTS
    /\ saved = FALSE
    /\ saveTimers = <<>>
    /\ saveHist = [clicks |-> 0, clean |-> TRUE]
    /\ GraphAbsent
    /\ AlertsAbsent
    /\ KycAbsent
    /\ TxnsAbsent

NextSettings ==
    \/ \E i \in 1..Len(FIELDS) : \E val \in SliderStops(FIELDS[i]) :
          SetValue(FIELDS[i].key, val)
    \/ ResetDefaults
    \/ Save
    \/ SaveTimeout

SpecSettings == InitSettings /\ [][NextSettings]_vars

\* C29: while the timeout of the last click on Save is still pending (less
\* than 3 s have passed since that click) and no slider was moved and Reset
\* was not clicked since, the saved indicator is set.
C29_SavedUntilTimeout ==
    (/\ saveHist.clicks > 0
     /\ saveHist.clean
     /\ \E i \in 1..Len(saveTimers) : saveTimers[i] = saveHist.clicks)
        => saved

\* C30: the four risk thresholds are ordered,
\* approve <= stepup <= flag <= block.
C30_ThresholdsOrdered ==
    /\ values.approve <= values.stepup
    /\ values.stepup <= values.flag
    /\ values.flag <= values.block

====
